---- MODULE Spec2Model ----
(***************************************************************************)
(* LongImgToPDF: the segmenter (generatePdfPages) and the assembler        *)
(* (createPdfBlob) of src/services/pdfService.ts, and the React state      *)
(* machine of src/App.tsx that drives them.                                *)
(*                                                                         *)
(* Numbers.  Page sizes are kept in tenths of a millimetre, so that        *)
(* 215.9 mm is the integer 2159; a margin stays in whole millimetres, as   *)
(* parseInt delivers it, and is scaled where it is subtracted.  A pixel    *)
(* height such as segmentHeightPx is a rational number: it is kept as a    *)
(* numerator over the denominator segDen, and every comparison is made on  *)
(* the cross-multiplied integers.  The code computes in IEEE doubles; the  *)
(* model computes the same expressions exactly, and follows the doubles    *)
(* only where they leave the rationals (division by zero: Infinity, NaN).  *)
(***************************************************************************)
EXTENDS Integers, Sequences, FiniteSets, TLC

(***************************************************************************)
(* Bounds of the model.                                                    *)
(***************************************************************************)
\* generatePdfPages calls one client of the service makes, one after another
MaxCalls == 2
\* canvases of one run whose getContext('2d') yields null
MaxCtxFailures == 1
\* files the user picks in one session of the App
MaxUploads == 2
\* segmentation runs the App starts in one session
MaxRuns == 3

(***************************************************************************)
(* types.ts                                                                *)
(***************************************************************************)
PageSize == {"A4", "Letter", "Legal"}

Orientation == {"portrait", "landscape"}

(***************************************************************************)
(* pdfService.ts: page geometry                                            *)
(***************************************************************************)
\* PAGE_DIMENSIONS, in tenths of a millimetre
PAGE_DIMENSIONS ==
    [A4     |-> [width |-> 2100, height |-> 2970],
     Letter |-> [width |-> 2159, height |-> 2794],
     Legal  |-> [width |-> 2159, height |-> 3556]]

baseDim(o) == PAGE_DIMENSIONS[o.pageSize]

pageWidthMm(o) ==
    IF o.orientation = "portrait" THEN baseDim(o).width ELSE baseDim(o).height

pageHeightMm(o) ==
    IF o.orientation = "portrait" THEN baseDim(o).height ELSE baseDim(o).width

\* a printable width that forgets the margin
printableWidthMm_NoMargin(o) == pageWidthMm(o)

\* pageWidthMm - (margin * 2), in tenths of a millimetre
printableWidthMm(o) == pageWidthMm(o) - (o.margin * 2) * 10

printableHeightMm(o) == pageHeightMm(o) - (o.margin * 2) * 10

Abs(x) == IF x < 0 THEN -x ELSE x

Min(a, b) == IF a < b THEN a ELSE b

\* floor and ceiling of the rational a / b, b # 0
Floor(a, b) == IF b > 0 THEN a \div b ELSE (-a) \div (-b)

Ceil(a, b) == -Floor(-a, b)

(***************************************************************************)
(* segmentHeightPx = printableHeightMm * (originalWidth / printableWidthMm)*)
(* is the rational segNum / segDen, the denominator made positive.  With   *)
(* printableWidthMm = 0 the scale is Infinity and segmentHeightPx is       *)
(* Infinity, -Infinity or NaN: segFinite tells the cases apart.            *)
(***************************************************************************)
segFinite(o) == printableWidthMm(o) # 0

segDen(o) == Abs(printableWidthMm(o))

segNum(W, o) ==
    IF printableWidthMm(o) < 0 THEN -(printableHeightMm(o) * W)
                               ELSE printableHeightMm(o) * W

\* Math.ceil(originalHeight / segmentHeightPx) is +Infinity: H / +0
totalPagesInfinite(W, H, o) ==
    /\ printableWidthMm(o) > 0
    /\ printableHeightMm(o) = 0
    /\ H > 0

\* Math.ceil(originalHeight / segmentHeightPx) where it is finite.  Where it
\* is NaN, -Infinity or a zero the loop test i < totalPages is false at i = 0:
\* the value 0 stands for all of them (+Infinity is totalPagesInfinite).
totalPages(W, H, o) ==
    IF segFinite(o) /\ segNum(W, o) # 0
        THEN Ceil(H * segDen(o), segNum(W, o))
        ELSE 0

\* currentY = i * segmentHeightPx, over segDen
currentY(i, W, o) == i * segNum(W, o)

\* captureHeight = Math.min(segmentHeightPx, originalHeight - currentY), over segDen
captureHeight(i, W, H, o) ==
    Min(segNum(W, o), H * segDen(o) - currentY(i, W, o))

\* One iteration of the loop that obtained its context.  dataUrl stands for
\* the JPEG: the rows [currentY, currentY + captureHeight) of the source drawn
\* on white, encoded at options.quality.  canvas.height is an unsigned long:
\* assigning segmentHeightPx truncates it.
renderPage(i, W, H, o) ==
    [dataUrl |-> [currentY      |-> currentY(i, W, o),
                  captureHeight |-> captureHeight(i, W, H, o),
                  den           |-> segDen(o),
                  quality       |-> o.quality],
     width   |-> W,
     height  |-> Floor(segNum(W, o), segDen(o))]

RECURSIVE renderFrom(_, _, _, _, _, _)
\* the loop from index i, run to n: noCtx are the iterations where
\* canvas.getContext('2d') returned null ("if (!ctx) continue")
renderFrom(i, n, W, H, o, noCtx) ==
    IF i >= n THEN <<>>
    ELSE (IF i \in noCtx THEN <<>> ELSE <<renderPage(i, W, H, o)>>)
             \o renderFrom(i + 1, n, W, H, o, noCtx)

\* the pages img.onload resolves the promise with
renderLoop(W, H, o, noCtx) ==
    renderFrom(0, totalPages(W, H, o), W, H, o, noCtx)

RECURSIVE UpTo(_, _)
\* the subsets of 0 .. n-1 with at most k elements
UpTo(k, n) ==
    IF k = 0 THEN {{}}
    ELSE UpTo(k - 1, n) \cup {S \cup {i} : S \in UpTo(k - 1, n), i \in 0 .. n - 1}

\* the sets of iterations that may find no context
CtxFailures(n) == UpTo(MaxCtxFailures, n)

\* createPdfBlob: new jsPDF() opens with one page; forEach adds a page for
\* every idx > 0 and one image per page bitmap; output('blob') returns.
createPdfBlob(ps, o) ==
    [outcome  |-> "blob",
     docPages |-> IF Len(ps) = 0 THEN 1 ELSE Len(ps),
     images   |-> ps,
     options  |-> o]

(***************************************************************************)
(* State.  The first group is the React state of App (useState) with the   *)
(* asynchronous work it has in flight; the second is a client that calls   *)
(* the two exports of pdfService.ts directly.                              *)
(***************************************************************************)
VARIABLES
    image,          \* <<>> (null) or <<f>>: the data URL of file f
    metadata,       \* <<>> (null) or <<[width, height]>>
    pages,          \* ProcessedPage[]
    isProcessing,
    isGenerating,
    aiAnalysis,     \* "" | "caption" | "fallback"
    options,        \* PdfOptions
    uploads,        \* FileReader / Image loads of handleFileUpload in flight
    nUploads,       \* files picked so far
    runs,           \* generatePdfPages promises of processImage not yet settled
    nRuns,          \* processImage calls so far; a run's id is its rank
    pagesOf,        \* <<>> or <<r>>: the run whose setPages wrote pages
    analyses,       \* analyzeDocument promises in flight
    exported,       \* <<>> or the createPdfBlob call handleDownload awaits
    src,            \* client: originalWidth, originalHeight it passes
    segOpts,        \* client: <<>> or <<options>> of its current call
    promise,        \* client: "none" | "pending" | "resolved" | "hung" | "unsettled"
    segTotal,       \* client: totalPages of the current run, once onload ran
    segNoCtx,       \* client: iterations of the current run that got no context
    segPages,       \* client: the pages the promise resolved with
    prevCall,       \* client: <<>> or the previous resolved call
    blob,           \* client: <<>> or <<createPdfBlob's result>>
    calls           \* client: generatePdfPages calls so far

appVars ==
    <<image, metadata, pages, isProcessing, isGenerating, aiAnalysis, options,
      uploads, nUploads, runs, nRuns, pagesOf, analyses, exported>>

segVars ==
    <<src, segOpts, promise, segTotal, segNoCtx, segPages, prevCall, blob, calls>>

vars == <<appVars, segVars>>

\* App.tsx, useState initial values
AppInit ==
    /\ image = <<>>
    /\ metadata = <<>>
    /\ pages = <<>>
    /\ isProcessing = FALSE
    /\ isGenerating = FALSE
    /\ aiAnalysis = ""
    /\ options = [pageSize |-> "A4", orientation |-> "portrait",
                  margin |-> 10, quality |-> 9]
    /\ uploads = {}
    /\ nUploads = 0
    /\ runs = {}
    /\ nRuns = 0
    /\ pagesOf = <<>>
    /\ analyses = 0
    /\ exported = <<>>

(***************************************************************************)
(* A client of pdfService.ts: it holds one decoded source and calls        *)
(* generatePdfPages, then createPdfBlob on what the promise resolved with, *)
(* then generatePdfPages again with other options.                         *)
(***************************************************************************)
\* sources: a strip shorter than one A4 page at margin 10, one that fills it
\* exactly, one that is a pixel row longer, and a longer one
SegSources ==
    {[width |-> 190, height |-> 240], [width |-> 190, height |-> 277],
     [width |-> 190, height |-> 278], [width |-> 190, height |-> 600]}

\* margins in millimetres: the slider's range, and values past half a page
SegMargins == {10, 20, 50, 105, 160}

\* the options the client passes: 105 mm is half the width of A4, and is taken
\* with A4 alone (on Letter and Legal it leaves a sliver of some hundred pages)
SegOptions ==
    {o \in [pageSize : PageSize, orientation : Orientation,
            margin : SegMargins, quality : {9}] :
        o.margin = 105 => o.pageSize = "A4"}

SegInit ==
    /\ src \in SegSources
    /\ segOpts = <<>>
    /\ promise = "none"
    /\ segTotal = 0
    /\ segNoCtx = {}
    /\ segPages = <<>>
    /\ prevCall = <<>>
    /\ blob = <<>>
    /\ calls = 0

\* generatePdfPages(dataUrl, W, H, o): new Promise, new Image, img.src = dataUrl
SegCall(o) ==
    /\ promise \in {"none", "resolved"}
    /\ calls < MaxCalls
    /\ calls' = calls + 1
    /\ segOpts' = <<o>>
    /\ promise' = "pending"
    /\ prevCall' = IF promise = "resolved"
                     THEN <<[options |-> segOpts[1], totalPages |-> segTotal,
                             returned |-> Len(segPages)]>>
                     ELSE prevCall
    /\ segTotal' = 0
    /\ segNoCtx' = {}
    /\ segPages' = <<>>
    /\ blob' = <<>>
    /\ UNCHANGED <<src, appVars>>

\* img.onload: lines 24-76.  With totalPages = Infinity the loop never ends.
SegOnload(noCtx) ==
    /\ promise = "pending"
    /\ IF totalPagesInfinite(src.width, src.height, segOpts[1])
         THEN /\ promise' = "hung"
              /\ UNCHANGED <<segTotal, segNoCtx, segPages>>
         ELSE /\ promise' = "resolved"
              /\ segTotal' = totalPages(src.width, src.height, segOpts[1])
              /\ segNoCtx' = noCtx
              /\ segPages' = renderLoop(src.width, src.height, segOpts[1], noCtx)
    /\ UNCHANGED <<src, segOpts, prevCall, blob, calls, appVars>>

\* the image fails to decode: img.onerror is not set, the promise stays pending
SegImgError ==
    /\ promise = "pending"
    /\ promise' = "unsettled"
    /\ UNCHANGED <<src, segOpts, segTotal, segNoCtx, segPages, prevCall, blob,
                   calls, appVars>>

\* the client passes the resolved pages to createPdfBlob
SegCreatePdfBlob ==
    /\ promise = "resolved"
    /\ blob = <<>>
    /\ blob' = <<createPdfBlob(segPages, segOpts[1])>>
    /\ UNCHANGED <<src, segOpts, promise, segTotal, segNoCtx, segPages, prevCall,
                   calls, appVars>>

\* what the canvases of the pending run may do
SegCtxChoices ==
    IF promise = "pending"
        THEN CtxFailures(totalPages(src.width, src.height, segOpts[1]))
        ELSE {}

SegNext ==
    \/ \E o \in SegOptions : SegCall(o)
    \/ \E noCtx \in SegCtxChoices : SegOnload(noCtx)
    \/ SegImgError
    \/ SegCreatePdfBlob

SegSpecInit == AppInit /\ SegInit

SegSpec == SegSpecInit /\ [][SegNext]_vars

(***************************************************************************)
(* App.tsx.  A user event is enabled when the element that raises it is    *)
(* rendered: the file input while image is null, the settings panel and    *)
(* the reset button while it is not.  The FileReader, the Image elements   *)
(* and the caption service complete in any order.                          *)
(***************************************************************************)
\* the files the user may pick: a screenshot, and a file that is no image
Files == {"strip", "corrupt"}

decodes(f) == f # "corrupt"

\* img.width, img.height of the decoded file
naturalSize(f) == [width |-> 190, height |-> 278]

\* the values the settings panel offers (the margin slider in steps, the
\* quality slider in tenths), cut to two each
Margins == {10, 20}

Qualities == {9, 5}

OptionChanges ==
    [pageSize : PageSize] \cup [orientation : Orientation]
        \cup [margin : Margins] \cup [quality : Qualities]

\* { ...options, ...newOptions }
merge(o, new) ==
    [k \in DOMAIN o |-> IF k \in DOMAIN new THEN new[k] ELSE o[k]]

\* runs the session may still start: one is kept for every upload in flight
budget == nRuns + Cardinality(uploads) < MaxRuns

\* processImage up to its await: setIsProcessing(true), and generatePdfPages
\* creates the promise and the Image and sets img.src
processImage(dataUrl, width, height, opts) ==
    /\ isProcessing' = TRUE
    /\ runs' = runs \cup {[id |-> nRuns + 1, dataUrl |-> dataUrl, width |-> width,
                           height |-> height, options |-> opts, st |-> "loading"]}
    /\ nRuns' = nRuns + 1

\* handleFileUpload: the handler closes over the options of its render
handleFileUpload(f) ==
    /\ image = <<>>
    /\ nUploads < MaxUploads
    /\ budget
    /\ isProcessing' = TRUE
    /\ uploads' = uploads \cup {[id |-> nUploads + 1, file |-> f, st |-> "reading",
                                 options |-> options]}
    /\ nUploads' = nUploads + 1
    /\ UNCHANGED <<image, metadata, pages, isGenerating, aiAnalysis, options, runs,
                   nRuns, pagesOf, analyses, exported, segVars>>

\* reader.onload: new Image, img.src = result
readerOnload(u) ==
    /\ u \in uploads
    /\ u.st = "reading"
    /\ uploads' = (uploads \ {u}) \cup {[u EXCEPT !.st = "decoding"]}
    /\ UNCHANGED <<image, metadata, pages, isProcessing, isGenerating, aiAnalysis,
                   options, nUploads, runs, nRuns, pagesOf, analyses, exported,
                   segVars>>

\* img.onload of handleFileUpload
uploadOnload(u) ==
    /\ u \in uploads
    /\ u.st = "decoding"
    /\ decodes(u.file)
    /\ image' = <<u.file>>
    /\ metadata' = <<naturalSize(u.file)>>
    /\ processImage(u.file, naturalSize(u.file).width, naturalSize(u.file).height,
                    u.options)
    /\ uploads' = uploads \ {u}
    /\ UNCHANGED <<pages, isGenerating, aiAnalysis, options, nUploads, pagesOf,
                   analyses, exported, segVars>>

\* the file is no image: the error event finds no handler
uploadError(u) ==
    /\ u \in uploads
    /\ u.st = "decoding"
    /\ ~decodes(u.file)
    /\ uploads' = uploads \ {u}
    /\ UNCHANGED <<image, metadata, pages, isProcessing, isGenerating, aiAnalysis,
                   options, nUploads, runs, nRuns, pagesOf, analyses, exported,
                   segVars>>

\* handleOptionChange
handleOptionChange(newOptions) ==
    /\ image # <<>>
    /\ budget
    /\ options' = merge(options, newOptions)
    /\ IF image # <<>> /\ metadata # <<>>
         THEN processImage(image[1], metadata[1].width, metadata[1].height,
                           merge(options, newOptions))
         ELSE UNCHANGED <<isProcessing, runs, nRuns>>
    /\ UNCHANGED <<image, metadata, pages, isGenerating, aiAnalysis, uploads,
                   nUploads, pagesOf, analyses, exported, segVars>>

\* img.onload of a run, and processImage after its await: setPages, the
\* caption request, and in finally setIsProcessing(false)
runOnload(r, noCtx) ==
    /\ r \in runs
    /\ r.st = "loading"
    /\ pages' = renderLoop(r.width, r.height, r.options, noCtx)
    /\ pagesOf' = <<r>>
    /\ analyses' = analyses + 1
    /\ isProcessing' = FALSE
    /\ runs' = runs \ {r}
    /\ UNCHANGED <<image, metadata, isGenerating, aiAnalysis, options, uploads,
                   nUploads, nRuns, exported, segVars>>

\* the Image of a run fails to load: no onerror, the promise is never settled
runImgError(r) ==
    /\ r \in runs
    /\ r.st = "loading"
    /\ runs' = (runs \ {r}) \cup {[r EXCEPT !.st = "failed"]}
    /\ UNCHANGED <<image, metadata, pages, isProcessing, isGenerating, aiAnalysis,
                   options, uploads, nUploads, nRuns, pagesOf, analyses, exported,
                   segVars>>

\* analyzeDocument resolves, with the caption or with its fallback string
analyzed(text) ==
    /\ analyses > 0
    /\ analyses' = analyses - 1
    /\ aiAnalysis' = text
    /\ UNCHANGED <<image, metadata, pages, isProcessing, isGenerating, options,
                   uploads, nUploads, runs, nRuns, pagesOf, exported, segVars>>

\* the header button is disabled on pages.length === 0 || isGenerating; the
\* floating button is rendered on image && !isProcessing
downloadEnabled ==
    \/ ~(Len(pages) = 0 \/ isGenerating)
    \/ image # <<>> /\ ~isProcessing

\* handleDownload up to its await
handleDownload ==
    /\ downloadEnabled
    /\ Len(pages) # 0
    /\ isGenerating' = TRUE
    /\ exported' = <<[doc |-> createPdfBlob(pages, options), pagesOf |-> pagesOf[1]]>>
    /\ UNCHANGED <<image, metadata, pages, isProcessing, aiAnalysis, options,
                   uploads, nUploads, runs, nRuns, pagesOf, analyses, segVars>>

\* handleDownload after its await: the link is clicked and the object URL
\* revoked, the blob goes out of scope; finally setIsGenerating(false)
downloaded ==
    /\ isGenerating
    /\ isGenerating' = FALSE
    /\ exported' = <<>>
    /\ UNCHANGED <<image, metadata, pages, isProcessing, aiAnalysis, options,
                   uploads, nUploads, runs, nRuns, pagesOf, analyses, segVars>>

reset ==
    /\ image # <<>>
    /\ image' = <<>>
    /\ metadata' = <<>>
    /\ pages' = <<>>
    /\ pagesOf' = <<>>
    /\ aiAnalysis' = ""
    /\ UNCHANGED <<isProcessing, isGenerating, options, uploads, nUploads, runs,
                   nRuns, analyses, exported, segVars>>

\* what the canvases of run r may do
ctxChoices(r) == CtxFailures(totalPages(r.width, r.height, r.options))

\* the steps the browser takes by itself
Settle ==
    \/ \E u \in uploads : readerOnload(u)
    \/ \E u \in uploads : uploadOnload(u)
    \/ \E u \in uploads : uploadError(u)
    \/ \E r \in runs : \E noCtx \in ctxChoices(r) : runOnload(r, noCtx)
    \/ \E r \in runs : runImgError(r)
    \/ \E text \in {"caption", "fallback"} : analyzed(text)
    \/ downloaded

\* the steps the user takes
User ==
    \/ \E f \in Files : handleFileUpload(f)
    \/ \E c \in OptionChanges : handleOptionChange(c)
    \/ handleDownload
    \/ reset

Next == Settle \/ User

\* the client of the service stays idle
SegIdle ==
    /\ src = [width |-> 190, height |-> 278]
    /\ segOpts = <<>>
    /\ promise = "none"
    /\ segTotal = 0
    /\ segNoCtx = {}
    /\ segPages = <<>>
    /\ prevCall = <<>>
    /\ blob = <<>>
    /\ calls = 0

Init == AppInit /\ SegIdle

Spec == Init /\ [][Next]_vars

\* every load the browser has started finishes, one way or the other; the
\* caption service answers; an awaited promise that is resolved continues
Fairness ==
    /\ \A i \in 1 .. MaxUploads :
          WF_vars(\E u \in uploads :
                     u.id = i /\ (readerOnload(u) \/ uploadOnload(u) \/ uploadError(u)))
    /\ \A i \in 1 .. MaxRuns :
          WF_vars(\E r \in runs :
                     /\ r.id = i
                     /\ \/ \E noCtx \in ctxChoices(r) : runOnload(r, noCtx)
                        \/ runImgError(r))
    /\ WF_vars(\E text \in {"caption", "fallback"} : analyzed(text))
    /\ WF_vars(downloaded)

FairSpec == Init /\ [][Next]_vars /\ Fairness

(***************************************************************************)
(* The claims.                                                             *)
(***************************************************************************)
\* the options of the configuration surface: margin in [0, 50]
InRange(o) == o.margin >= 0 /\ o.margin <= 50

\* the printable area is positive
ValidGeometry(o) == printableWidthMm(o) > 0 /\ printableHeightMm(o) > 0

\* n = ceil(a / b), for b > 0
IsCeiling(n, a, b) == (n - 1) * b < a /\ a <= n * b

RECURSIVE SumCapture(_)
\* the source rows the pages of ps were cut from, over segDen
SumCapture(ps) ==
    IF ps = <<>> THEN 0
    ELSE Head(ps).dataUrl.captureHeight + SumCapture(Tail(ps))

\* the current call of the client has resolved
Resolved == promise = "resolved"

\* C1: a run on a source with W, H > 0 under options of the configuration
\* surface returns a page sequence whose length is at least 1 and is
\* ceil(H / segmentHeightPx)
C1_ReturnsCeilingManyPages ==
    (Resolved /\ InRange(segOpts[1])) =>
        /\ Len(segPages) >= 1
        /\ IsCeiling(Len(segPages), src.height * segDen(segOpts[1]),
                     segNum(src.width, segOpts[1]))

\* The count the run computes is that ceiling, and the run returns as many
\* pages as it computes when every canvas gives its context.
TotalPagesIsCeiling ==
    (Resolved /\ InRange(segOpts[1])) =>
        /\ segTotal >= 1
        /\ IsCeiling(segTotal, src.height * segDen(segOpts[1]),
                     segNum(src.width, segOpts[1]))
        /\ Len(segPages) = segTotal - Cardinality(segNoCtx)

\* C2: the slices of the returned pages partition the rows of the source:
\* their heights add up to H, every page but the last captures a full
\* segment, the last captures H - (totalPages - 1) * segmentHeightPx > 0
C2_SlicesPartitionTheSource ==
    (Resolved /\ InRange(segOpts[1])) =>
        LET o == segOpts[1]
            n == Len(segPages)
        IN  /\ SumCapture(segPages) = src.height * segDen(o)
            /\ \A k \in 1 .. n :
                  segPages[k].dataUrl.currentY = (k - 1) * segNum(src.width, o)
            /\ \A k \in 1 .. n - 1 :
                  segPages[k].dataUrl.captureHeight = segNum(src.width, o)
            /\ n >= 1
            /\ segPages[n].dataUrl.captureHeight
                  = src.height * segDen(o) - (segTotal - 1) * segNum(src.width, o)
            /\ segPages[n].dataUrl.captureHeight > 0

\* The slices the loop cuts for the indices 0 .. totalPages-1 partition the
\* rows of the source, and a returned page holds the slice of its index.
SlicePlanPartitionsTheSource ==
    (Resolved /\ InRange(segOpts[1])) =>
        LET o  == segOpts[1]
            W  == src.width
            H  == src.height
            ix == (0 .. segTotal - 1) \ segNoCtx
        IN  /\ \A i \in 0 .. segTotal - 2 : captureHeight(i, W, H, o) = segNum(W, o)
            /\ captureHeight(segTotal - 1, W, H, o)
                  = H * segDen(o) - (segTotal - 1) * segNum(W, o)
            /\ captureHeight(segTotal - 1, W, H, o) > 0
            /\ (segTotal - 1) * segNum(W, o) + captureHeight(segTotal - 1, W, H, o)
                  = H * segDen(o)
            /\ \A k \in 1 .. Len(segPages) :
                  \E i \in ix :
                     /\ Cardinality({j \in ix : j < i}) = k - 1
                     /\ segPages[k] = renderPage(i, W, H, o)

\* C3: with a printable area that is not positive the run fails before any
\* canvas is made: it never returns pages (and never loops for them)
C3_InvalidGeometryIsRejected ==
    (segOpts # <<>> /\ ~ValidGeometry(segOpts[1])) =>
        promise \notin {"resolved", "hung"}

\* C4: createPdfBlob on no pages raises EmptyInputError and returns no
\* document; on k >= 1 pages it returns a document of those k pages
C4_EmptyInputIsRejected ==
    blob # <<>> =>
        IF Len(blob[1].images) = 0
            THEN blob[1].outcome = "EmptyInputError"
            ELSE blob[1].outcome = "blob" /\ blob[1].docPages = Len(blob[1].images)

\* C5: a run in which a page could not be rendered does not resolve: no
\* resolved run holds fewer pages than totalPages
C5_NoPageIsDropped ==
    Resolved => segNoCtx = {} /\ Len(segPages) = segTotal

\* the client ran A4 portrait at margin 10 and at margin 20 on its source,
\* one call after the other
Margin10And20 ==
    /\ Resolved
    /\ prevCall # <<>>
    /\ segOpts[1].pageSize = "A4" /\ prevCall[1].options.pageSize = "A4"
    /\ segOpts[1].orientation = "portrait"
    /\ prevCall[1].options.orientation = "portrait"
    /\ {segOpts[1].margin, prevCall[1].options.margin} = {10, 20}

totalPagesAt10 ==
    IF segOpts[1].margin = 10 THEN segTotal ELSE prevCall[1].totalPages

totalPagesAt20 ==
    IF segOpts[1].margin = 20 THEN segTotal ELSE prevCall[1].totalPages

\* C8 as stated: on A4 portrait the page count at margin 20 is at least the
\* page count at margin 10
C8_Original_MarginNeverDecreasesPages ==
    Margin10And20 => totalPagesAt20 >= totalPagesAt10

\* C8, amended: on A4 portrait the page count at margin 20 is at most the
\* page count at margin 10 (the wider margin narrows the printable width
\* more than the height, in proportion, so a segment holds more rows)
C8_MarginNeverIncreasesPages ==
    Margin10And20 => totalPagesAt20 <= totalPagesAt10

\* both margins were run, and the wider one gave fewer pages
C8_Witness ==
    Margin10And20 /\ totalPagesAt20 < totalPagesAt10

SameGeometry(a, b) ==
    /\ a.pageSize = b.pageSize
    /\ a.orientation = b.orientation
    /\ a.margin = b.margin

\* C6: once every started run has completed, the pages in the state are
\* those of the run that was started with the most recent options
C6_LatestRunWins ==
    (runs = {} /\ uploads = {} /\ pagesOf # <<>>) => pagesOf[1].options = options

\* C7: every started run completes and isProcessing goes back to false
C7_EveryRunSettles ==
    /\ isProcessing ~> ~isProcessing
    /\ \A i \in 1 .. MaxRuns :
          (\E r \in runs : r.id = i) ~> ~(\E r \in runs : r.id = i)

\* C9: the pages handleDownload passes to createPdfBlob were segmented under
\* the page size, orientation and margin of the options it passes with them
C9_ExportGeometryMatches ==
    exported # <<>> =>
        SameGeometry(exported[1].pagesOf.options, exported[1].doc.options)

\* C10: with no image there are no pages
C10_NoImageNoPages ==
    image = <<>> => Len(pages) = 0

\* C11: isProcessing is true whenever a segmentation run that processImage
\* started has not yet completed; a run that completes does not clear it
\* while another run is in flight
C11_ProcessingWhileRunsInFlight ==
    runs # {} => isProcessing

====
